---------------------------- MODULE Spec2Model ----------------------------
(***************************************************************************)
(* Marathon tracker: the plan/day-log store, the client's subscriptions    *)
(* and the handlers of App (create, delete, save log, adjust, chat update) *)
(* together with the pure helpers they call (generateTrainingPlan's window *)
(* and response handling).                                                 *)
(*                                                                         *)
(* Two specifications:                                                     *)
(*   Spec     the client session against the store (handlers interleaved   *)
(*            with network completions and snapshot notifications);        *)
(*   SpecGen  generateTrainingPlan as a function of its arguments, the     *)
(*            clock, the time zone and the endpoint's response.            *)
(***************************************************************************)
EXTENDS Integers, Sequences, FiniteSets, TLC

VARIABLES
    storePlans,     \* store: ids of the plan documents that exist
    nextPlanId,     \* store: the id addDoc assigns next
    days,           \* store: <<planId, date>> -> day-log document
    plans,          \* App state `plans` (ids of the last plan-list snapshot)
    currentPlanId,  \* App state `currentPlanId`
    planLogs,       \* App state `planLogs` (date -> log object)
    plansDirty,     \* a plan-list snapshot is waiting to be delivered
    daysSub,        \* plan whose day collection the listener is attached to
    daysDirty,      \* a day-collection snapshot is waiting to be delivered
    selectedLog,    \* App state `selectedLog` (the log the edit form shows)
    isCreatingPlan, \* App state `isCreatingPlan`
    isAdjusting,    \* App state `isAdjusting`
    cre,            \* handleCreatePlan in flight
    adj,            \* handleAdjustPlan in flight
    chat,           \* ChatModal.handleSend / handleChatUpdatePlan in flight
    del,            \* handleDeletePlan in flight
    sav,            \* handleSaveLog in flight
    showChatModal,  \* App state `showChatModal`
    calls,          \* user actions so far
    gen,            \* one call of generateTrainingPlan (SpecGen)
    messages,       \* ChatModal state `messages` (the transcript)
    turns,          \* history: for each chat turn that has ended, what came
                    \* back for it and the calls of onUpdatePlan it made
    loading,        \* ChatModal state `loading`
    alerted,        \* the alert() calls of the last step, in order
    logsFrom,       \* history: the plan whose day collection the snapshot
                    \* now in planLogs was taken from (NoPlan: none)
    view,           \* one day log and what the calendar and handleAdjustPlan
                    \* make of it (SpecRender)
    call,           \* one call of a helper (getDaysArray, calculatePace,
                    \* LogModal.handleSubmit): its arguments, then its result
    user            \* App state `user` (the uid, NoUser for null)

vars == <<storePlans, nextPlanId, days, plans, currentPlanId, planLogs,
          plansDirty, daysSub, daysDirty, selectedLog, isCreatingPlan,
          isAdjusting, cre, adj, chat, del, sav, showChatModal, calls, gen,
          messages, turns, loading, alerted, logsFrom, view, call, user>>

appVars == <<storePlans, nextPlanId, days, plans, currentPlanId, planLogs,
             plansDirty, daysSub, daysDirty, selectedLog, isCreatingPlan,
             isAdjusting, cre, adj, chat, del, sav, showChatModal, calls,
             messages, turns, loading, alerted, logsFrom, user>>

(***************************************************************************)
(* Bounds of the model.                                                    *)
(***************************************************************************)
MaxPlans == 2       \* plans created in one run
MaxCalls == 3       \* user actions (clicks that call a handler) in one run
MaxDate == 2        \* day keys 1..MaxDate in the session model
MaxStart == 2       \* SpecGen: start dates 0..MaxStart
MaxZoneShift == 1   \* SpecGen: DST transition on day 10..10+MaxZoneShift

WindowDays == 28    \* fourWeeksLater.setDate(getDate() + 28)

NoPlan == 0         \* currentPlanId null (plan ids start at 1)

(***************************************************************************)
(* JS values as they come out of JSON.parse.                               *)
(***************************************************************************)
JsNull == [t |-> "null"]
JsObject == [t |-> "object"]
JsString(s) == [t |-> "string", s |-> s]
JsNumber(n) == [t |-> "number", n |-> n]
JsArray(a) == [t |-> "array", a |-> a]

IsArray(v) == v.t = "array"

\* if (generatedPlan): null, 0 and "" are falsy, objects and arrays truthy
Truthy(v) ==
    CASE v.t = "null" -> FALSE
      [] v.t = "number" -> v.n # 0
      [] v.t = "string" -> v.s # ""
      [] OTHER -> TRUE


(***************************************************************************)
(* Dates.  A calendar date "YYYY-MM-DD" is its day number; an instant (a   *)
(* JS Date) is a number of hours, 24 * day for UTC midnight of that day.   *)
(* A time zone is a standard offset and, when it has one, a daylight       *)
(* saving transition: from instant `at` on the offset is base + delta.     *)
(***************************************************************************)
UTC == [base |-> 0, dst |-> FALSE, at |-> 0, delta |-> 0]

Zones ==
    {UTC,
     [base |-> -5, dst |-> FALSE, at |-> 0, delta |-> 0],
     [base |-> 9, dst |-> FALSE, at |-> 0, delta |-> 0]}
    \cup {[base |-> b, dst |-> TRUE, at |-> 24 * day + 2 - b, delta |-> dl] :
            b \in {-5, 1}, day \in 10..(10 + MaxZoneShift), dl \in {-1, 1}}

\* the zone's UTC offset in force at instant u
Offset(z, u) == IF z.dst /\ u >= z.at THEN z.base + z.delta ELSE z.base

\* the local wall-clock reading of instant u
LocalTime(z, u) == u + Offset(z, u)

\* the instant of a local wall-clock reading w (ECMAScript UTC(t): a reading
\* skipped by the transition is taken with the offset before it, a repeated
\* one is the earlier instant)
UTCOfLocal(z, w) ==
    LET before == w - z.base
        after == w - (z.base + z.delta)
    IN  IF ~z.dst \/ before < z.at THEN before
        ELSE IF after >= z.at THEN after
        ELSE before

\* new Date("YYYY-MM-DD"): UTC midnight of the day
NewDate(day) == 24 * day

\* date.toISOString().split('T')[0]: the UTC calendar day of an instant
dateToISO(u) == u \div 24

\* dt.setDate(dt.getDate() + n): n days later on the local wall clock
SetDatePlus(z, u, n) == UTCOfLocal(z, LocalTime(z, u) + 24 * n)

\* the window generateTrainingPlan asks the endpoint for
generationStartDate(startDate, now, isAdjustment) ==
    IF isAdjustment THEN dateToISO(now) ELSE startDate

fourWeeksLater(z, startDate, now, isAdjustment) ==
    SetDatePlus(z, NewDate(generationStartDate(startDate, now, isAdjustment)),
                WindowDays)

generationEndDate(z, startDate, raceDate, now, isAdjustment) ==
    LET fwl == fourWeeksLater(z, startDate, now, isAdjustment)
        race == NewDate(raceDate)
    IN  IF fwl < race THEN fwl ELSE race

generationEndDateStr(z, startDate, raceDate, now, isAdjustment) ==
    dateToISO(generationEndDate(z, startDate, raceDate, now, isAdjustment))

(***************************************************************************)
(* The endpoint's answer and what generateTrainingPlan makes of it.        *)
(* A response is a network error, an HTTP answer that is not ok, an ok     *)
(* answer whose body is not JSON, or an ok answer with (or without) the    *)
(* text candidates[0].content.parts[0].text.  A text is an optional        *)
(* opening fence, a body and an optional closing fence; a body is invalid  *)
(* JSON or the JSON text of a value.                                       *)
(***************************************************************************)
Invalid == [t |-> "invalid"]
Thrown == [t |-> "throw"]

Text(open, body, close) == [open |-> open, body |-> body, close |-> close]

Resp(kind, ok, json, text) ==
    [kind |-> kind, ok |-> ok, json |-> json, text |-> text]

\* jsonString.replace(/^```json\s*|```\s*$/g, '').trim()
cleanJsonString(text) ==
    Text(IF text.open = "json" THEN "none" ELSE text.open, text.body, FALSE)

\* JSON.parse: the value, or Invalid when it throws
JsonParse(text) ==
    IF text.open # "none" \/ text.close THEN Invalid ELSE text.body

\* the try block of generateTrainingPlan: the value it returns, Thrown when
\* a statement inside it throws
TryBody(resp) ==
    CASE resp.kind = "networkError" -> Thrown    \* fetch rejects
      [] ~resp.ok -> Thrown                      \* if (!response.ok) throw
      [] resp.json = "bad" -> Thrown             \* response.json() rejects
      [] resp.json \in {"noText", "emptyText"} -> Thrown  \* if (!jsonString) throw
      [] OTHER ->
            LET v == JsonParse(cleanJsonString(resp.text))
            IN  IF v = Invalid THEN Thrown ELSE v

\* the catch block rethrowing instead of returning null
CatchRethrows(r) == r

\* catch (error) { return null }
CatchReturn(r) == IF r = Thrown THEN JsNull ELSE r

\* the value generateTrainingPlan resolves to for a response (Thrown: it
\* rejects to its caller)
generateTrainingPlan(resp) == CatchReturn(TryBody(resp))

(***************************************************************************)
(* Day records.  A record is a function from field names to values; a      *)
(* field that is absent is not in its domain.                              *)
(***************************************************************************)
Activities == {"Easy", "Tempo"}

DateKeys == 1..MaxDate

Rec(d, pa) == [date |-> d, plannedActivity |-> pa]

\* elements the endpoint may put in its array besides well-formed records:
\* one without date, one without plannedActivity, one with an empty
\* plannedActivity, one carrying a field beyond the schema
NoDateRec == [plannedActivity |-> "Tempo"]
NoActivityRec == [date |-> 2]
EmptyActivityRec == Rec(2, "")
ExtraFieldRec ==
    [date |-> 1, plannedActivity |-> "Tempo", actualDistance |-> ""]

\* the arrays of day records the endpoint may answer with
Proposals ==
    {<<Rec(1, "Easy"), Rec(2, "Easy")>>,
     <<Rec(1, "Tempo")>>,
     <<Rec(1, "Tempo"), NoDateRec>>,
     <<Rec(1, "Tempo"), NoActivityRec, EmptyActivityRec>>,
     <<ExtraFieldRec>>}

Has(r, f) == f \in DOMAIN r

\* JS truthiness of a string field: present and not ''
Filled(r, f) == Has(r, f) /\ r[f] # ""

Bodies ==
    {Invalid, JsNull, JsObject, JsString("x"), JsNumber(0), JsNumber(7)}
    \cup {JsArray(a) : a \in Proposals}

NoText == Text("none", Invalid, FALSE)

Failures ==
    {Resp("networkError", FALSE, "bad", NoText),
     Resp("http", FALSE, "bad", NoText),
     Resp("http", TRUE, "bad", NoText),
     Resp("http", TRUE, "noText", NoText),
     Resp("http", TRUE, "emptyText", NoText)}

\* every answer of the endpoint
Responses ==
    Failures
    \cup {Resp("http", TRUE, "text", Text(o, b, c)) :
            o \in {"none", "json", "bare"}, b \in Bodies, c \in BOOLEAN}

\* the answers without code fences (the session model draws from these)
PlainResponses ==
    Failures
    \cup {Resp("http", TRUE, "text", Text("none", b, FALSE)) : b \in Bodies}


(***************************************************************************)
(* The store (Firestore).  A write is a set (with or without merge) or a   *)
(* delete of one document; a batch is a sequence of writes that the store  *)
(* applies as one or rejects as one.  The day collection of a plan is kept *)
(* under the plan's path but lives on when the plan document is deleted.   *)
(***************************************************************************)
Empty == <<>>

ActualFields ==
    {"activities", "actualDistance", "durationStr", "rpe", "feeling",
     "coachFeedback"}

\* { merge: true }: the fields of data overlay those already stored
Merge(old, data) == data @@ old

SetOp(p, d, data, merge) ==
    [op |-> "set", coll |-> "days", plan |-> p, date |-> d, data |-> data,
     merge |-> merge]

DeleteDay(p, d) ==
    [op |-> "delete", coll |-> "days", plan |-> p, date |-> d, data |-> Empty,
     merge |-> FALSE]

DeletePlanOp(p) ==
    [op |-> "delete", coll |-> "plans", plan |-> p, date |-> 0, data |-> Empty,
     merge |-> FALSE]

Store(ps, ds) == [plans |-> ps, days |-> ds]

Without(f, k) == [x \in (DOMAIN f) \ {k} |-> f[x]]

\* one write applied to the store st
ApplyOp(st, o) ==
    LET k == <<o.plan, o.date>>
    IN  CASE o.coll = "plans" -> Store(st.plans \ {o.plan}, st.days)
          [] o.op = "delete" -> Store(st.plans, Without(st.days, k))
          [] o.merge /\ k \in DOMAIN st.days ->
                Store(st.plans, (k :> Merge(st.days[k], o.data)) @@ st.days)
          [] OTHER -> Store(st.plans, (k :> o.data) @@ st.days)

RECURSIVE ApplyAll(_, _)
ApplyAll(st, batch) ==
    IF batch = <<>> THEN st
    ELSE ApplyAll(ApplyOp(st, Head(batch)), Tail(batch))

\* the writes sent one by one: a rejection after the first has been applied
CommitOneByOne(st, batch, ok) ==
    IF ok THEN ApplyAll(st, batch)
    ELSE IF batch = <<>> THEN st
    ELSE ApplyOp(st, Head(batch))

\* batch.commit(): every write of the batch, in order, or none
Commit(st, batch, ok) == IF ok THEN ApplyAll(st, batch) ELSE st

\* The users.  Guest is the anonymous user the browser has kept, Runner an
\* account that signs in with e-mail and password, Anon the anonymous user
\* that signInAnonymously makes after a sign-out; NoUser is `user` null.
NoUser == "none"
Guest == "guest"
Runner == "runner"
Anon == "anon"

\* A plan document lives under its user's path (users/{uid}/plans/{id}).
\* The plans of the session that creates plans are 1..MaxPlans and Guest's;
\* the account has one plan of its own.
AccountPlan == MaxPlans + 1
Owner(p) == IF p = AccountPlan THEN Runner ELSE Guest

\* collection(db, ..., 'users', user.uid, 'plans') as the store holds it
UserPlans(sp, u) == {p \in sp : Owner(p) = u}

\* the day collection of plan p: date -> document
DaysOf(ds, p) ==
    [d \in {k[2] : k \in {x \in DOMAIN ds : x[1] = p}} |-> ds[<<p, d>>]]

\* the elements of a set of numbers in increasing order
RECURSIVE Sorted(_)
Sorted(S) ==
    IF S = {} THEN <<>>
    ELSE LET m == CHOOSE x \in S : \A y \in S : x <= y
         IN  <<m>> \o Sorted(S \ {m})

(***************************************************************************)
(* The client's subscriptions (the two onSnapshot effects of App).         *)
(***************************************************************************)
\* logs[doc.id] = { id: doc.id, ...doc.data() }
SnapshotLogs(ds, p) ==
    LET coll == DaysOf(ds, p)
    IN  [d \in DOMAIN coll |-> coll[d] @@ [id |-> d]]

\* the snapshot of users/{u}/plans/{p}/days: another user's plan has no
\* documents under this path
UserLogs(ds, u, p) == IF Owner(p) = u THEN SnapshotLogs(ds, p) ELSE Empty

\* plans.find(p => p.id === currentPlanId), NoPlan when there is none
PlanFound(ps, id) == IF id \in ps THEN id ELSE NoPlan

\* App state `currentPlan` (set by the day-log effect on every run)
currentPlan == PlanFound(plans, currentPlanId)

\* effects with an optimistic local update: a step that writes to the store
\* also puts the written day collection into planLogs
EffectsOptimistic(id, ps, gotPlans) ==
    LET rerun == gotPlans \/ id # currentPlanId
    IN  /\ currentPlanId' = id
        /\ plans' = ps
        /\ plansDirty' =
              \/ storePlans' # storePlans
              \/ id # currentPlanId
              \/ (plansDirty /\ ~gotPlans)
        /\ daysSub' = IF rerun THEN id ELSE daysSub
        /\ planLogs' = IF rerun /\ id = NoPlan THEN Empty
                       ELSE IF days' # days /\ id # NoPlan
                         THEN SnapshotLogs(days', id)
                       ELSE planLogs
        /\ logsFrom' = IF rerun /\ id = NoPlan THEN NoPlan ELSE logsFrom
        /\ daysDirty' =
              IF rerun THEN id # NoPlan
              ELSE \/ daysDirty
                   \/ /\ daysSub # NoPlan
                      /\ DaysOf(days', daysSub) # DaysOf(days, daysSub)

\* The effects that follow a handler or a notification which leaves the
\* store at storePlans', days', sets currentPlanId to id and, when gotPlans,
\* has just stored a new plan list ps.  The plan-list effect re-subscribes
\* when currentPlanId changed; the day-log effect re-runs when currentPlanId
\* or plans changed: without a plan it clears planLogs, with one it
\* subscribes to that plan's days and waits for the first snapshot.
Effects(id, ps, gotPlans) ==
    LET rerun == gotPlans \/ id # currentPlanId
    IN  /\ currentPlanId' = id
        /\ plans' = ps
        /\ plansDirty' =
              \/ storePlans' # storePlans
              \/ id # currentPlanId
              \/ (plansDirty /\ ~gotPlans)
        /\ daysSub' = IF rerun THEN id ELSE daysSub
        /\ planLogs' = IF rerun /\ id = NoPlan THEN Empty ELSE planLogs
        /\ logsFrom' = IF rerun /\ id = NoPlan THEN NoPlan ELSE logsFrom
        /\ daysDirty' =
              IF rerun THEN id # NoPlan
              ELSE \/ daysDirty
                   \/ /\ daysSub # NoPlan
                      /\ DaysOf(days', daysSub) # DaysOf(days, daysSub)

\* no handler state and no selection changes: only the store may have
SameClient == Effects(currentPlanId, plans, FALSE)

\* onSnapshot(q, ...) of the plan list, newest plan first
PlansSnapshot ==
    /\ user # NoUser
    /\ plansDirty
    /\ UNCHANGED <<storePlans, nextPlanId, days>>
    /\ LET fetchedPlans == UserPlans(storePlans, user)
           id == IF fetchedPlans # {} /\ currentPlanId = NoPlan
                    THEN CHOOSE p \in fetchedPlans : \A q \in fetchedPlans : q <= p
                 ELSE IF fetchedPlans = {} THEN NoPlan
                 ELSE currentPlanId
       IN  Effects(id, fetchedPlans, TRUE)
    /\ UNCHANGED <<selectedLog, isCreatingPlan, isAdjusting, cre, adj, chat,
                   del, sav, showChatModal, calls, gen, view, call, user,
                   messages, turns, loading>>
    /\ alerted' = <<>>

\* a listener that takes the notification and drops its documents
DaysSnapshotDropped ==
    /\ daysSub # NoPlan
    /\ daysDirty
    /\ daysDirty' = FALSE
    /\ UNCHANGED <<storePlans, nextPlanId, days, plans, currentPlanId,
                   planLogs, logsFrom, plansDirty, daysSub, selectedLog,
                   isCreatingPlan, isAdjusting, cre, adj, chat, del, sav,
                   showChatModal, calls, gen, view, call, user, messages, turns,
                   loading, alerted>>

\* onSnapshot(logsRef, ...) of the subscribed plan's day collection
DaysSnapshot ==
    /\ daysSub # NoPlan
    /\ daysDirty
    /\ planLogs' = UserLogs(days, user, daysSub)
    /\ logsFrom' = daysSub
    /\ daysDirty' = FALSE
    /\ UNCHANGED <<storePlans, nextPlanId, days, plans, currentPlanId,
                   plansDirty, daysSub, selectedLog, isCreatingPlan,
                   isAdjusting, cre, adj, chat, del, sav, showChatModal,
                   calls, gen, view, call, user, messages, turns, loading>>
    /\ alerted' = <<>>


(***************************************************************************)
(* The chat (ChatModal).  A text is a sequence of tokens: a run of words,  *)
(* a run of white space, the delimiter <<<PLAN_UPDATE>>>, or a piece that  *)
(* is the JSON text of a value (of Invalid: a piece that is no JSON).      *)
(* The notes the modal writes itself are tokens of their own.              *)
(***************************************************************************)
Word == [k |-> "word"]
Space == [k |-> "space"]
Delim == [k |-> "delim"]
Json(v) == [k |-> "json", v |-> v]

\* "\n\n<check mark> **Plan Updated!**"
PlanUpdated == [k |-> "planUpdated"]
\* "\n\n(Technical Error: Failed to apply plan update)"
TechnicalError == [k |-> "technicalError"]
\* "Sorry, I couldn't generate a response."
Sorry == <<[k |-> "sorry"]>>
\* "Error connecting to coach. Please try again."
ErrorConnecting == <<[k |-> "errorConnecting"]>>
\* "Hi! I'm your AI running coach. Need to adjust your plan? Just ask!"
Greeting == <<[k |-> "greeting"]>>

Msg(role, text) == [role |-> role, text |-> text]

\* useState([{ role: 'model', text: "Hi! ..." }])
InitialMessages == <<Msg("model", Greeting)>>

\* the newest message put first
PrependMsg(prev, m) == <<m>> \o prev

\* the reply appended to the transcript as handleSend saw it when the turn
\* was sent (setMessages([...messages, m]) with the closure's messages)
AppendStale(prev, m) ==
    IF m.role = "model" THEN SubSeq(prev, 1, Len(prev) - 1) \o <<m>>
    ELSE prev \o <<m>>

\* the leftmost delimiter and the last one (a greedy group)
updateMatchGreedy(reply) ==
    IF Cardinality({i \in 1..Len(reply) : reply[i] = [k |-> "delim"]}) < 2
      THEN [found |-> FALSE]
    ELSE LET ds == {i \in 1..Len(reply) : reply[i] = [k |-> "delim"]}
             i == CHOOSE x \in ds : \A y \in ds : x <= y
             j == CHOOSE x \in ds : \A y \in ds : x >= y
         IN  [found |-> TRUE, from |-> i, to |-> j,
              group |-> SubSeq(reply, i + 1, j - 1)]

\* setMessages(prev => [...prev, m])
AppendMsg(prev, m) == prev \o <<m>>

\* String.prototype.trim
RECURSIVE TrimStart(_)
TrimStart(t) ==
    IF t # <<>> /\ Head(t) = Space THEN TrimStart(Tail(t)) ELSE t

RECURSIVE TrimEnd(_)
TrimEnd(t) ==
    IF t # <<>> /\ t[Len(t)] = Space THEN TrimEnd(SubSeq(t, 1, Len(t) - 1))
    ELSE t

Trim(t) == TrimEnd(TrimStart(t))

\* the positions of the delimiter in a text
Delims(t) == {i \in 1..Len(t) : t[i] = Delim}

NoMatch == [found |-> FALSE]

\* reply.match(/<<<PLAN_UPDATE>>>([\s\S]*?)<<<PLAN_UPDATE>>>/): the leftmost
\* delimiter and the nearest one after it; group is updateMatch[1]
updateMatch(reply) ==
    IF Cardinality(Delims(reply)) < 2 THEN NoMatch
    ELSE LET i == CHOOSE x \in Delims(reply) : \A y \in Delims(reply) : x <= y
             later == Delims(reply) \ {i}
             j == CHOOSE x \in later : \A y \in later : x <= y
         IN  [found |-> TRUE, from |-> i, to |-> j,
              group |-> SubSeq(reply, i + 1, j - 1)]

\* JSON.parse(jsonStr): the value, Invalid when it throws
ParseJsonStr(jsonStr) ==
    IF Len(jsonStr) = 1 /\ jsonStr[1].k = "json" THEN jsonStr[1].v
    ELSE Invalid

\* JSON.parse(updateMatch[1].trim())
newPlan(m) == ParseJsonStr(Trim(m.group))

\* if (updateMatch && updateMatch[1]): a match with a non-empty group
HasUpdate(m) == m.found /\ m.group # <<>>

\* reply.replace(updateMatch[0], "")
WithoutMatch(reply, m) ==
    SubSeq(reply, 1, m.from - 1) \o SubSeq(reply, m.to + 1, Len(reply))

\* the reply handleSend records for the text the endpoint sent
RecordedReply(reply) ==
    LET m == updateMatch(reply)
    IN  IF ~HasUpdate(m) THEN reply
        ELSE IF newPlan(m) = Invalid THEN reply \o <<TechnicalError>>
        ELSE IF IsArray(newPlan(m))
          THEN Trim(WithoutMatch(reply, m)) \o <<PlanUpdated>>
        ELSE reply

\* whether handleSend calls onUpdatePlan for the text, and with what
CallsUpdate(reply) ==
    LET m == updateMatch(reply)
    IN  HasUpdate(m) /\ newPlan(m) # Invalid /\ IsArray(newPlan(m))

UpdateArg(reply) == newPlan(updateMatch(reply)).a

\* what comes back for a chat request: fetch rejects, response.json()
\* rejects (or the body has a shape handleSend trips over), a body without
\* candidates[0].content.parts[0].text, or a text
ChatAnswer(kind, text) == [kind |-> kind, text |-> text]

ChatFailures ==
    {ChatAnswer("networkError", <<>>), ChatAnswer("badBody", <<>>)}

NoTextAnswer == ChatAnswer("noText", <<>>)

\* a turn of the history
Turn(answer, updates) == [answer |-> answer, updates |-> updates]

\* data.candidates?.[0]?.content?.parts?.[0]?.text || "Sorry, ..."
ReplyOf(answer) ==
    IF answer.kind = "text" /\ answer.text # <<>> THEN answer.text ELSE Sorry

(***************************************************************************)
(* Handlers of App.  A handler runs up to its next await in one step; the  *)
(* store takes a write when it is issued (the client's writes reach the    *)
(* store in the order issued) and the handler's continuation runs when the *)
(* write's promise settles.  ok says whether the store accepts the write.  *)
(***************************************************************************)
\* a handler in flight: where it stands, the plan of its closure, whether
\* the store accepted its write, the list it was handed and the writes it
\* issued
Op(pc, p, ok, arg, batch) ==
    [pc |-> pc, plan |-> p, ok |-> ok, arg |-> arg, batch |-> batch]

Idle == Op("idle", NoPlan, TRUE, <<>>, <<>>)

\* the user can act (click, submit) while the run's budget lasts
Call == calls < MaxCalls /\ calls' = calls + 1

\* doc(daysRef, day.date) throws for a missing document id
DocThrows(r) == ~Has(r, "date")

CreateDefaults ==
    [actualDistance |-> "", durationStr |-> "", feeling |-> "", rpe |-> 5,
     coachFeedback |-> ""]

\* generatedPlan.forEach(day => { doc(daysRef, day.date) ... }) throws: the
\* value has no forEach, or doc() throws at an element
LoopThrows(v) ==
    \/ ~IsArray(v)
    \/ \E i \in 1..Len(v.a) : DocThrows(v.a[i])

\* the writes of handleCreatePlan: batch.set(docRef, {...day, <defaults>})
CreateBatch(p, recs) ==
    [i \in 1..Len(recs) |->
        SetOp(p, recs[i].date, CreateDefaults @@ recs[i], FALSE)]

\* an Adjust that deletes the days the answer leaves without an activity
AdjustBatchPruning(p, recs) ==
    [i \in 1..Len(recs) |->
        IF Filled(recs[i], "plannedActivity")
          THEN SetOp(p, recs[i].date, recs[i], TRUE)
        ELSE DeleteDay(p, recs[i].date)]

\* the writes of handleAdjustPlan: batch.set(docRef, {...day}, {merge: true})
AdjustBatch(p, recs) ==
    [i \in 1..Len(recs) |-> SetOp(p, recs[i].date, recs[i], TRUE)]

\* the filter testing that the two fields are present, not that they are set
ChatKeepsPresent(day) == Has(day, "date") /\ Has(day, "plannedActivity")

\* if (day.date && day.plannedActivity)
ChatKeeps(day) == Has(day, "date") /\ Filled(day, "plannedActivity")

ChatOp(p, day) == SetOp(p, day.date, Rec(day.date, day.plannedActivity), TRUE)

\* the loop of handleChatUpdatePlan over newDays
RECURSIVE ChatBatch(_, _)
ChatBatch(p, newDays) ==
    IF newDays = <<>> THEN <<>>
    ELSE (IF ChatKeeps(Head(newDays)) THEN <<ChatOp(p, Head(newDays))>>
          ELSE <<>>) \o ChatBatch(p, Tail(newDays))

\* Object.keys(planLogs).forEach(date => batch.delete(...)); batch.delete(planRef)
DeleteBatch(p, logs) ==
    LET dates == Sorted(DOMAIN logs)
    IN  [i \in 1..Len(dates) |-> DeleteDay(p, dates[i])] \o <<DeletePlanOp(p)>>

\* the store after a batch issued now
Issue(batch, ok) ==
    LET st == Commit(Store(storePlans, days), batch, ok)
    IN  /\ storePlans' = st.plans
        /\ days' = st.days

---------------------------------------------------------------------------
\* handleCreatePlan up to the answer of generateTrainingPlan: addDoc creates
\* the plan document (or is rejected: catch, alert)
CreateStart(ok) ==
    /\ Call
    /\ ~isCreatingPlan
    /\ nextPlanId <= MaxPlans
    /\ IF ok
         THEN /\ storePlans' = storePlans \cup {nextPlanId}
              /\ nextPlanId' = nextPlanId + 1
              /\ cre' = Op("gen", nextPlanId, TRUE, <<>>, <<>>)
              /\ isCreatingPlan' = TRUE
         ELSE /\ UNCHANGED <<storePlans, nextPlanId, isCreatingPlan>>
              /\ cre' = Op("failed", NoPlan, FALSE, <<>>, <<>>)
    /\ days' = days
    /\ SameClient
    /\ UNCHANGED <<selectedLog, isAdjusting, adj, chat, del, sav,
                   showChatModal, gen, view, call, user, messages, turns,
                   loading>>
    /\ alerted' = IF ok THEN <<>> ELSE <<"Failed to create plan.">>

\* handleCreatePlan from the answer of generateTrainingPlan to batch.commit()
CreateGenReturn(resp, ok) ==
    /\ cre.pc = "gen"
    /\ LET generatedPlan == generateTrainingPlan(resp)
       IN  IF ~Truthy(generatedPlan)
             THEN \* no batch: setCurrentPlanId(newPlanRef.id)
                  /\ UNCHANGED <<storePlans, days>>
                  /\ cre' = Idle
                  /\ isCreatingPlan' = FALSE
                  /\ Effects(cre.plan, plans, FALSE)
             ELSE IF LoopThrows(generatedPlan)
             THEN \* forEach or doc() throws: catch, alert
                  /\ UNCHANGED <<storePlans, days>>
                  /\ cre' = Op("failed", NoPlan, TRUE,
                              IF IsArray(generatedPlan) THEN generatedPlan.a
                              ELSE <<>>, <<>>)
                  /\ isCreatingPlan' = FALSE
                  /\ SameClient
             ELSE /\ Issue(CreateBatch(cre.plan, generatedPlan.a), ok)
                  /\ cre' = Op("commit", cre.plan, ok, generatedPlan.a,
                              CreateBatch(cre.plan, generatedPlan.a))
                  /\ isCreatingPlan' = isCreatingPlan
                  /\ SameClient
    /\ UNCHANGED <<nextPlanId, selectedLog, isAdjusting, adj, chat, del, sav,
                   showChatModal, calls, gen, view, call, user,
                   messages, turns, loading>>
    /\ alerted' = IF /\ Truthy(generateTrainingPlan(resp))
                     /\ LoopThrows(generateTrainingPlan(resp))
                    THEN <<"Failed to create plan.">> ELSE <<>>

\* handleCreatePlan after await batch.commit()
CreateSettled ==
    /\ cre.pc = "commit"
    /\ UNCHANGED <<storePlans, nextPlanId, days>>
    /\ IF cre.ok
         THEN /\ cre' = Idle
              /\ Effects(cre.plan, plans, FALSE)
         ELSE /\ cre' = Op("failed", NoPlan, FALSE, <<>>, <<>>)
              /\ SameClient
    /\ isCreatingPlan' = FALSE
    /\ UNCHANGED <<selectedLog, isAdjusting, adj, chat, del, sav,
                   showChatModal, calls, gen, view, call, user,
                   messages, turns, loading>>
    /\ alerted' = IF cre.ok THEN <<>> ELSE <<"Failed to create plan.">>

\* a button that is never disabled
NeverDisabled == FALSE

\* the Adjust Plan button: disabled={isAdjusting}
AdjustDisabled == isAdjusting

\* the chat's submit button: disabled={!input.trim() || loading} (the
\* messages of the model are not blank)
SendDisabled == loading

\* handleAdjustPlan up to the answer of generateTrainingPlan
AdjustStart ==
    /\ Call
    /\ currentPlan # NoPlan
    /\ ~AdjustDisabled
    /\ isAdjusting' = TRUE
    /\ adj' = Op("gen", currentPlanId, TRUE, <<>>, <<>>)
    /\ UNCHANGED <<storePlans, nextPlanId, days>>
    /\ SameClient
    /\ UNCHANGED <<selectedLog, isCreatingPlan, cre, chat, del, sav,
                   showChatModal, gen, view, call, user, messages, turns,
                   loading>>
    /\ alerted' = <<>>

\* handleAdjustPlan from the answer of generateTrainingPlan to batch.commit()
AdjustGenReturn(resp, ok) ==
    /\ adj.pc = "gen"
    /\ LET generatedPlan == generateTrainingPlan(resp)
       IN  IF ~Truthy(generatedPlan)
             THEN \* alert("Failed to adjust plan.")
                  /\ UNCHANGED <<storePlans, days>>
                  /\ adj' = Idle
                  /\ isAdjusting' = FALSE
             ELSE IF LoopThrows(generatedPlan)
             THEN \* forEach or doc() throws out of the handler
                  /\ UNCHANGED <<storePlans, days>>
                  /\ adj' = Op("crashed", NoPlan, TRUE,
                              IF IsArray(generatedPlan) THEN generatedPlan.a
                              ELSE <<>>, <<>>)
                  /\ isAdjusting' = isAdjusting
             ELSE /\ Issue(AdjustBatch(adj.plan, generatedPlan.a), ok)
                  /\ adj' = Op("commit", adj.plan, ok, generatedPlan.a,
                              AdjustBatch(adj.plan, generatedPlan.a))
                  /\ isAdjusting' = isAdjusting
    /\ SameClient
    /\ UNCHANGED <<nextPlanId, selectedLog, isCreatingPlan, cre, chat, del,
                   sav, showChatModal, calls, gen, view, call, user,
                   messages, turns, loading>>
    /\ alerted' = IF Truthy(generateTrainingPlan(resp)) THEN <<>>
                  ELSE <<"Failed to adjust plan.">>

\* handleAdjustPlan after await batch.commit(): a rejection is not caught
AdjustSettled ==
    /\ adj.pc = "commit"
    /\ IF adj.ok
         THEN /\ adj' = Idle
              /\ isAdjusting' = FALSE
         ELSE /\ adj' = Op("crashed", NoPlan, FALSE, <<>>, <<>>)
              /\ isAdjusting' = isAdjusting
    /\ UNCHANGED <<storePlans, nextPlanId, days>>
    /\ SameClient
    /\ UNCHANGED <<selectedLog, isCreatingPlan, cre, chat, del, sav,
                   showChatModal, calls, gen, view, call, user,
                   messages, turns, loading>>
    /\ alerted' = IF adj.ok THEN <<"Plan adjusted based on your logs!">>
                  ELSE <<>>


\* the Coach button (shown with a current plan) and the modal's close button
OpenChat ==
    /\ Call
    /\ currentPlan # NoPlan
    /\ ~showChatModal
    /\ showChatModal' = TRUE
    /\ UNCHANGED <<storePlans, nextPlanId, days>>
    /\ SameClient
    /\ UNCHANGED <<selectedLog, isCreatingPlan, isAdjusting, cre, adj, chat,
                   del, sav, gen, view, call, user, messages, turns, loading>>
    /\ alerted' = <<>>

CloseChat ==
    /\ Call
    /\ showChatModal
    /\ showChatModal' = FALSE
    /\ UNCHANGED <<storePlans, nextPlanId, days>>
    /\ SameClient
    /\ UNCHANGED <<selectedLog, isCreatingPlan, isAdjusting, cre, adj, chat,
                   del, sav, gen, view, call, user, messages, turns, loading>>
    /\ alerted' = <<>>

\* ChatModal.handleSend up to the endpoint's answer; onUpdatePlan is the
\* handleChatUpdatePlan of this render, with this render's currentPlanId.
\* The model keeps one handleChatUpdatePlan in flight: the next message is
\* sent once the commit of the previous turn's update has settled.
ChatSend ==
    /\ Call
    /\ showChatModal
    /\ ~SendDisabled
    /\ chat.pc # "update"
    /\ chat' = Op("fetch", currentPlanId, TRUE, <<>>, <<>>)
    /\ messages' = AppendMsg(messages, Msg("user", <<Word>>))
    /\ turns' = turns
    /\ UNCHANGED <<storePlans, nextPlanId, days>>
    /\ SameClient
    /\ UNCHANGED <<selectedLog, isCreatingPlan, isAdjusting, cre, adj, del,
                   sav, showChatModal, gen, view, call, user>>
    /\ loading' = TRUE
    /\ alerted' = <<>>

\* the answer is a text with a plan update that parses to an array:
\* onUpdatePlan(newPlan), that is handleChatUpdatePlan up to batch.commit(),
\* and the reply recorded without the block
ChatUpdate(reply, ok) ==
    /\ chat.pc = "fetch"
    /\ CallsUpdate(reply)
    /\ LET newDays == UpdateArg(reply)
       IN  IF chat.plan = NoPlan
             THEN \* if (!user || !currentPlanId) return
                  /\ UNCHANGED <<storePlans, days>>
                  /\ chat' = Idle
             ELSE /\ Issue(ChatBatch(chat.plan, newDays), ok)
                  /\ chat' = Op("update", chat.plan, ok, newDays,
                                ChatBatch(chat.plan, newDays))
    /\ messages' = AppendMsg(messages, Msg("model", RecordedReply(reply)))
    /\ turns' = Append(turns, Turn(ChatAnswer("text", reply),
                                   <<UpdateArg(reply)>>))
    /\ SameClient
    /\ UNCHANGED <<nextPlanId, selectedLog, isCreatingPlan, isAdjusting, cre,
                   adj, del, sav, showChatModal, calls, gen, view, call, user>>
    /\ loading' = FALSE
    /\ alerted' = <<>>

\* any other answer: no call of onUpdatePlan; the reply (or, after a failed
\* request, the error message of the catch block) is recorded
ChatNoUpdate(answer) ==
    /\ chat.pc = "fetch"
    /\ ~CallsUpdate(ReplyOf(answer))
    /\ chat' = Idle
    /\ messages' =
          AppendMsg(messages,
                    Msg("model",
                        IF answer \in ChatFailures THEN ErrorConnecting
                        ELSE RecordedReply(ReplyOf(answer))))
    /\ turns' = Append(turns, Turn(answer, <<>>))
    /\ UNCHANGED <<storePlans, nextPlanId, days>>
    /\ SameClient
    /\ UNCHANGED <<selectedLog, isCreatingPlan, isAdjusting, cre, adj, del,
                   sav, showChatModal, calls, gen, view, call, user>>
    /\ loading' = FALSE
    /\ alerted' = <<>>

\* handleChatUpdatePlan after await batch.commit(): nothing, or catch and
\* alert
ChatSettled ==
    /\ chat.pc = "update"
    /\ chat' = Idle
    /\ UNCHANGED <<storePlans, nextPlanId, days>>
    /\ SameClient
    /\ UNCHANGED <<selectedLog, isCreatingPlan, isAdjusting, cre, adj, del,
                   sav, showChatModal, calls, gen, view, call, user,
                   messages, turns, loading>>
    /\ alerted' = IF chat.ok THEN <<>> ELSE <<"Failed to update plan.">>

\* handleDeletePlan up to batch.commit() (the user confirms)
DeleteStart(ok) ==
    /\ Call
    /\ currentPlan # NoPlan
    /\ del.pc # "commit"
    /\ Issue(DeleteBatch(currentPlanId, planLogs), ok)
    /\ del' = Op("commit", currentPlanId, ok, <<>>,
                 DeleteBatch(currentPlanId, planLogs))
    /\ nextPlanId' = nextPlanId
    /\ SameClient
    /\ UNCHANGED <<selectedLog, isCreatingPlan, isAdjusting, cre, adj, chat,
                   sav, showChatModal, gen, view, call, user,
                   messages, turns, loading>>
    /\ alerted' = <<>>

\* handleDeletePlan after await batch.commit(): setCurrentPlanId(null), or
\* catch and alert
DeleteSettled ==
    /\ del.pc = "commit"
    /\ UNCHANGED <<storePlans, nextPlanId, days>>
    /\ IF del.ok
         THEN /\ del' = Idle
              /\ Effects(NoPlan, plans, FALSE)
         ELSE /\ del' = Idle
              /\ SameClient
    /\ UNCHANGED <<selectedLog, isCreatingPlan, isAdjusting, cre, adj, chat,
                   sav, showChatModal, calls, gen, view, call, user,
                   messages, turns, loading>>
    /\ alerted' = IF del.ok THEN <<>> ELSE <<"Failed to delete plan.">>

\* a plan button of the sidebar: setCurrentPlanId(p.id)
SelectPlan(p) ==
    /\ Call
    /\ p \in plans
    /\ p # currentPlanId
    /\ UNCHANGED <<storePlans, nextPlanId, days>>
    /\ Effects(p, plans, FALSE)
    /\ UNCHANGED <<selectedLog, isCreatingPlan, isAdjusting, cre, adj, chat,
                   del, sav, showChatModal, gen, view, call, user,
                   messages, turns, loading>>
    /\ alerted' = <<>>


(***************************************************************************)
(* The log form (LogModal) and handleSaveLog.  Distances are counted in    *)
(* hundredths of a kilometre.                                             *)
(***************************************************************************)
NoLog == Empty

Session(dist, dur, rpe, feeling) ==
    [actualDistance |-> dist, durationStr |-> dur, rpe |-> rpe,
     feeling |-> feeling]

BlankSession == Session("", "", 5, "")

\* totalDist.toFixed(1)
ToFixed1(hundredths) ==
    LET tenths == (hundredths + 5) \div 10
    IN  ToString(tenths \div 10) \o "." \o ToString(tenths % 10)

\* parseFloat(s) || 0 for the distance strings of the model
ParseFloatOr0(s) ==
    CASE s = "5" -> 500
      [] s = "3.5" -> 350
      [] s = "0.04" -> 4
      [] s = "0.1" -> 10
      [] s = "5.0" -> 500
      [] s = "8.5" -> 850
      [] s = "10.0" -> 1000
      [] OTHER -> 0

\* log.activities || (log.actualDistance ? [<legacy fields>] : [<blank>])
initialActivities(log) ==
    IF Has(log, "activities") THEN log.activities
    ELSE IF Filled(log, "actualDistance")
         THEN <<Session(log.actualDistance, log.durationStr, log.rpe,
                        log.feeling)>>
    ELSE <<BlankSession>>

\* what the user may leave in the form: the sessions as loaded, or one run
\* (analysed by the coach or not), or a run and a second session
FormEdits == {"keep", "runAnalyzed"}

FormActivities(log, edit) ==
    CASE edit = "keep" -> initialActivities(log)
      [] edit = "double" ->
            <<Session("5", "25:00", 6, "ok"), Session("3.5", "20:00", 8, "")>>
      [] OTHER -> <<Session("5", "25:00", 6, "ok")>>

\* useState(log.coachFeedback || ''), replaced by handleAnalyze's answer
FormFeedback(log, edit) ==
    IF edit = "runAnalyzed" THEN "Nice run"
    ELSE IF Has(log, "coachFeedback") THEN log.coachFeedback
    ELSE ""

RECURSIVE SumDist(_)
SumDist(acts) ==
    IF acts = <<>> THEN 0
    ELSE ParseFloatOr0(Head(acts).actualDistance) + SumDist(Tail(acts))

RECURSIVE MaxRpe(_)
MaxRpe(acts) ==
    IF Len(acts) = 1 THEN Head(acts).rpe
    ELSE LET m == MaxRpe(Tail(acts))
         IN  IF Head(acts).rpe > m THEN Head(acts).rpe ELSE m

\* activities.map(a => a.feeling).filter(Boolean).join(' | ')
RECURSIVE JoinFeelings(_)
JoinFeelings(acts) ==
    IF acts = <<>> THEN ""
    ELSE LET rest == JoinFeelings(Tail(acts))
             f == Head(acts).feeling
         IN  IF f = "" THEN rest
             ELSE IF rest = "" THEN f
             ELSE f \o " | " \o rest

\* LogModal.handleSubmit: the object handed to onSave
updatedLog(log, activities, coachFeedback) ==
    LET totalDist == SumDist(activities)
        primary == activities[1]
    IN  [activities |-> activities,
         coachFeedback |-> coachFeedback,
         actualDistance |->
            IF totalDist > 0 THEN ToFixed1(totalDist)
            ELSE primary.actualDistance,
         durationStr |-> primary.durationStr,
         rpe |-> MaxRpe(activities),
         feeling |-> JoinFeelings(activities)] @@ log

\* a day cell of the calendar: setSelectedLog({ date, ...log, goal })
OpenLog(d) ==
    /\ Call
    /\ currentPlan # NoPlan
    /\ selectedLog' =
          [goal |-> "G"]
          @@ (IF d \in DOMAIN planLogs THEN planLogs[d] ELSE Empty)
          @@ [date |-> d]
    /\ UNCHANGED <<storePlans, nextPlanId, days>>
    /\ SameClient
    /\ UNCHANGED <<isCreatingPlan, isAdjusting, cre, adj, chat, del, sav,
                   showChatModal, gen, view, call, user, messages, turns,
                   loading>>
    /\ alerted' = <<>>

\* the form's Cancel: setSelectedLog(null)
CloseLog ==
    /\ Call
    /\ selectedLog # NoLog
    /\ selectedLog' = NoLog
    /\ UNCHANGED <<storePlans, nextPlanId, days>>
    /\ SameClient
    /\ UNCHANGED <<isCreatingPlan, isAdjusting, cre, adj, chat, del, sav,
                   showChatModal, gen, view, call, user, messages, turns,
                   loading>>
    /\ alerted' = <<>>

\* the form's Save: handleSubmit, then handleSaveLog up to await setDoc
SaveLog(edit, ok) ==
    /\ Call
    /\ selectedLog # NoLog
    /\ sav.pc # "commit"
    /\ LET log == updatedLog(selectedLog, FormActivities(selectedLog, edit),
                             FormFeedback(selectedLog, edit))
           write == <<SetOp(currentPlanId, log.date, log, TRUE)>>
       IN  IF currentPlanId = NoPlan
             THEN \* if (!user || !currentPlanId) return
                  /\ UNCHANGED <<storePlans, days, sav>>
             ELSE /\ Issue(write, ok)
                  /\ sav' = Op("commit", currentPlanId, ok, <<>>, write)
    /\ nextPlanId' = nextPlanId
    /\ SameClient
    /\ UNCHANGED <<selectedLog, isCreatingPlan, isAdjusting, cre, adj, chat,
                   del, showChatModal, gen, view, call, user,
                   messages, turns, loading>>
    /\ alerted' = <<>>

\* handleSaveLog after await setDoc: setSelectedLog(null); a rejection is
\* not caught and leaves the form open
SaveSettled ==
    /\ sav.pc = "commit"
    /\ selectedLog' = IF sav.ok THEN NoLog ELSE selectedLog
    /\ sav' = Idle
    /\ UNCHANGED <<storePlans, nextPlanId, days>>
    /\ SameClient
    /\ UNCHANGED <<isCreatingPlan, isAdjusting, cre, adj, chat, del,
                   showChatModal, calls, gen, view, call, user,
                   messages, turns, loading>>
    /\ alerted' = <<>>

(***************************************************************************)
(* The session starts with a signed-in user and the plan-list subscription *)
(* waiting for its first snapshot.  The store is empty (a new user) or     *)
(* holds what an earlier session left: one plan, created with two days,    *)
(* the first of them logged from the form.                                 *)
(***************************************************************************)
\* the chat answers of the session model: a reply with a plan update for
\* each proposal; a failed request, a plain reply and a reply whose update
\* is no JSON
UpdateReplies == {<<Word, Delim, Json(JsArray(a)), Delim>> : a \in Proposals}

PlainAnswers ==
    {ChatAnswer("networkError", <<>>),
     ChatAnswer("text", <<Word>>),
     ChatAnswer("text", <<Word, Delim, Json(Invalid), Delim>>)}

GenIdle == [pc |-> "idle"]

EmptyStore == Store({}, Empty)

CreatedStore ==
    ApplyAll(Store({1}, Empty),
             CreateBatch(1, <<Rec(1, "Easy"), Rec(2, "Easy")>>))

LoggedStore ==
    LET log == [goal |-> "G"] @@ SnapshotLogs(CreatedStore.days, 1)[1]
    IN  ApplyAll(CreatedStore,
                 <<SetOp(1, 1, updatedLog(log, FormActivities(log, "runAnalyzed"),
                                          FormFeedback(log, "runAnalyzed")),
                         TRUE)>>)

InitialStores == {EmptyStore, LoggedStore}

\* the client as the page loads it, before the first snapshot
InitClient ==
    /\ plans = {}
    /\ currentPlanId = NoPlan
    /\ planLogs = Empty
    /\ plansDirty = TRUE
    /\ daysSub = NoPlan
    /\ daysDirty = FALSE
    /\ selectedLog = NoLog
    /\ isCreatingPlan = FALSE
    /\ isAdjusting = FALSE
    /\ cre = Idle
    /\ adj = Idle
    /\ chat = Idle
    /\ del = Idle
    /\ sav = Idle
    /\ showChatModal = FALSE
    /\ messages = InitialMessages
    /\ turns = <<>>
    /\ loading = FALSE
    /\ alerted = <<>>
    /\ logsFrom = NoPlan
    /\ calls = 0

InitApp ==
    /\ \E st \in InitialStores :
          /\ storePlans = st.plans
          /\ days = st.days
          /\ nextPlanId = Cardinality(st.plans) + 1
    /\ user = Guest
    /\ InitClient

ViewIdle == [pc |-> "idle"]

CallIdle == [pc |-> "idle"]

Init == InitApp /\ gen = GenIdle /\ view = ViewIdle /\ call = CallIdle

Next ==
    \/ PlansSnapshot
    \/ DaysSnapshot
    \/ \E ok \in BOOLEAN : CreateStart(ok)
    \/ \E resp \in PlainResponses, ok \in BOOLEAN : CreateGenReturn(resp, ok)
    \/ CreateSettled
    \/ AdjustStart
    \/ \E resp \in PlainResponses, ok \in BOOLEAN : AdjustGenReturn(resp, ok)
    \/ AdjustSettled
    \/ OpenChat
    \/ CloseChat
    \/ ChatSend
    \/ \E reply \in UpdateReplies, ok \in BOOLEAN : ChatUpdate(reply, ok)
    \/ \E answer \in PlainAnswers : ChatNoUpdate(answer)
    \/ ChatSettled
    \/ \E ok \in BOOLEAN : DeleteStart(ok)
    \/ DeleteSettled
    \/ \E p \in 1..MaxPlans : SelectPlan(p)
    \/ \E d \in DateKeys : OpenLog(d)
    \/ CloseLog
    \/ \E edit \in FormEdits, ok \in BOOLEAN : SaveLog(edit, ok)
    \/ SaveSettled

Spec == Init /\ [][Next]_vars

(***************************************************************************)
(* The signed-in user.  onAuthStateChanged calls back with the user after  *)
(* every sign-in and with null after a sign-out; with null it also calls   *)
(* signInAnonymously, which makes a new anonymous user.  The plan-list     *)
(* effect and the day-log effect depend on `user`; currentPlanId and plans *)
(* are written by nothing that a change of `user` runs.                    *)
(***************************************************************************)
\* setUser(u) and the effects that follow: the plan-list effect drops its
\* listener and, with a user, attaches one to that user's plans; the
\* day-log effect clears planLogs without a user or a current plan and
\* otherwise attaches to users/{u}/plans/{currentPlanId}/days
SetUser(u) ==
    /\ user' = u
    /\ plansDirty' = (u # NoUser)
    /\ IF u = NoUser \/ currentPlanId = NoPlan
         THEN /\ planLogs' = Empty
              /\ logsFrom' = NoPlan
              /\ daysSub' = NoPlan
              /\ daysDirty' = FALSE
         ELSE /\ planLogs' = planLogs
              /\ logsFrom' = logsFrom
              /\ daysSub' = currentPlanId
              /\ daysDirty' = TRUE
    /\ UNCHANGED <<storePlans, nextPlanId, days, plans, currentPlanId,
                   selectedLog, isCreatingPlan, isAdjusting, cre, adj, chat,
                   del, sav, showChatModal, gen, view, call, messages, turns,
                   loading>>
    /\ alerted' = <<>>

\* AuthModal.handleSubmit: signInWithEmailAndPassword resolves (the Sign In
\* button shows while there is no user or an anonymous one)
EmailSignIn ==
    /\ Call
    /\ user # Runner
    /\ SetUser(Runner)

\* the sign-out button of the sidebar: signOut(auth)
SignOut ==
    /\ Call
    /\ user = Runner
    /\ SetUser(NoUser)

\* signInAnonymously(auth) of the auth listener resolves
AnonymousSignIn ==
    /\ user = NoUser
    /\ calls' = calls
    /\ SetUser(Anon)

\* the store when the page loads: Guest's plans, and the account's plan
AuthStores ==
    InitialStores
        \cup {Store(st.plans \cup {AccountPlan}, st.days) : st \in InitialStores}

InitAuth ==
    /\ \E st \in AuthStores :
          /\ storePlans = st.plans
          /\ days = st.days
          /\ nextPlanId = AccountPlan + 1
    /\ user \in {Guest, Runner}
    /\ InitClient
    /\ gen = GenIdle
    /\ view = ViewIdle
    /\ call = CallIdle

NextAuth ==
    \/ PlansSnapshot
    \/ DaysSnapshot
    \/ \E p \in 1..AccountPlan : SelectPlan(p)
    \/ \E d \in DateKeys : OpenLog(d)
    \/ CloseLog
    \/ EmailSignIn
    \/ SignOut
    \/ AnonymousSignIn

SpecAuth == InitAuth /\ [][NextAuth]_vars

(***************************************************************************)
(* One call of generateTrainingPlan(goal, startDate, raceDate, existingLog, *)
(* isAdjustment): the arguments, the clock and the time zone of the        *)
(* browser are given; the call computes the window it asks for, sends the  *)
(* request and returns what it makes of the endpoint's answer.             *)
(***************************************************************************)
\* raceDate - startDate of the plans the form can submit (it does not
\* compare the two dates)
RaceGaps == {-1, 0, 9, 27, 28, 29, 40}

\* new Date(): the instants the call may be made at
Clock == {24 * d + h : d \in 0..MaxStart, h \in {3, 22}}

GenInputs ==
    {[pc |-> "call", zone |-> z, startDate |-> s, raceDate |-> s + g,
      now |-> t, isAdjustment |-> a] :
        z \in Zones, s \in 0..MaxStart, g \in RaceGaps, t \in Clock,
        a \in BOOLEAN}

\* generateTrainingPlan up to await fetch: the window written into the prompt
GenRequest ==
    /\ gen.pc = "call"
    /\ gen' = [gen EXCEPT
                 !.pc = "fetch"]
              @@ [from |-> generationStartDate(gen.startDate, gen.now,
                                               gen.isAdjustment),
                  to |-> generationEndDateStr(gen.zone, gen.startDate,
                                              gen.raceDate, gen.now,
                                              gen.isAdjustment)]
    /\ UNCHANGED <<appVars, view, call>>

\* generateTrainingPlan from the endpoint's answer to its return
GenReturn(resp) ==
    /\ gen.pc = "fetch"
    /\ gen' = [pc |-> "returned", resp |-> resp,
               result |-> generateTrainingPlan(resp)]
    /\ UNCHANGED <<appVars, view, call>>

InitGen ==
    /\ InitApp
    /\ storePlans = {}
    /\ gen \in GenInputs
    /\ view = ViewIdle
    /\ call = CallIdle

NextGen ==
    \/ GenRequest
    \/ \E resp \in Responses : GenReturn(resp)

SpecGen == InitGen /\ [][NextGen]_vars

(***************************************************************************)
(* The chat on its own: the session with no other handler than the chat's, *)
(* and the endpoint free to send any of a wider range of texts.            *)
(***************************************************************************)
\* what may stand between the two delimiters of a block
Groups ==
    {<<>>, <<Space>>, <<Word>>, <<Json(Invalid)>>, <<Json(JsObject)>>,
     <<Json(JsNull)>>,
     <<Json(JsArray(<<Rec(1, "Tempo")>>))>>,
     <<Space, Json(JsArray(<<Rec(1, "Tempo"), NoActivityRec>>)), Space>>,
     <<Json(JsArray(<<Rec(1, "Tempo")>>)), Word>>}

\* the texts the endpoint may send: words, then possibly a block, then
\* possibly more words, a stray delimiter or a second block
ChatTexts ==
    {<<>>, <<Word>>, <<Delim>>, <<Word, Delim, Word>>}
    \cup {pre \o <<Delim>> \o g \o <<Delim>> \o post :
            pre \in {<<>>, <<Word, Space>>},
            g \in Groups,
            post \in {<<>>, <<Space, Word>>,
                      <<Word, Delim, Json(JsArray(<<Rec(2, "Easy")>>)),
                        Delim>>}}

ChatAnswers ==
    ChatFailures \cup {NoTextAnswer}
    \cup {ChatAnswer("text", t) : t \in ChatTexts}

NextChat ==
    \/ PlansSnapshot
    \/ DaysSnapshot
    \/ OpenChat
    \/ CloseChat
    \/ ChatSend
    \/ \E reply \in ChatTexts, ok \in BOOLEAN : ChatUpdate(reply, ok)
    \/ \E answer \in ChatAnswers : ChatNoUpdate(answer)
    \/ ChatSettled

SpecChat == Init /\ [][NextChat]_vars

(***************************************************************************)
(* Completion.  One day log, as the form or a batch left it, and what the  *)
(* calendar cell (renderCalendar) and the filter of handleAdjustPlan make  *)
(* of it.                                                                  *)
(***************************************************************************)
\* log?.activities && log.activities.some(a => a.actualDistance &&
\* parseFloat(a.actualDistance) > 0)
hasActivities(log) ==
    /\ Has(log, "activities")
    /\ \E i \in 1..Len(log.activities) :
          /\ Filled(log.activities[i], "actualDistance")
          /\ ParseFloatOr0(log.activities[i].actualDistance) > 0

\* log?.actualDistance && parseFloat(log.actualDistance) > 0
hasLegacy(log) ==
    Filled(log, "actualDistance") /\ ParseFloatOr0(log.actualDistance) > 0

isCompleted(log) == hasActivities(log) \/ hasLegacy(log)

\* Object.values(planLogs).filter(l => l.actualDistance &&
\* parseFloat(l.actualDistance) > 0), planLogs holding the one log
completedLogs(log) ==
    IF log # NoLog /\ Filled(log, "actualDistance")
         /\ ParseFloatOr0(log.actualDistance) > 0
      THEN <<log>>
    ELSE <<>>

\* what the user may type into a session's distance field (step 0.01)
SessionDistances == {"", "0", "0.04", "5"}

\* the sessions of the form: one, or two
FormSessions ==
    {<<Session(d, "25:00", 6, "ok")>> : d \in SessionDistances}
    \cup {<<Session(d, "25:00", 6, "ok"), Session(e, "20:00", 8, "")>> :
             d \in SessionDistances, e \in SessionDistances}

\* a day as handleCreatePlan and as handleChatUpdatePlan write it, and a
\* day logged before the form had sessions (legacy fields only)
PlannedLogs ==
    {CreateDefaults @@ Rec(1, "Easy") @@ [id |-> 1],
     Rec(1, "Tempo") @@ [id |-> 1]}

LegacyLog ==
    [actualDistance |-> "5", durationStr |-> "25:00", rpe |-> 6,
     feeling |-> "ok", coachFeedback |-> ""] @@ Rec(1, "Easy") @@ [id |-> 1]

\* the logs a day may hold: none, a planned day, a legacy log, or a planned
\* day saved from the form
RenderLogs ==
    {NoLog, LegacyLog} \cup PlannedLogs
    \cup {updatedLog([goal |-> "G"] @@ log, acts, "") :
             log \in PlannedLogs, acts \in FormSessions}

\* a calendar cell is rendered
RenderDay ==
    /\ view' = [pc |-> "rendered", log |-> view.log,
                isCompleted |-> isCompleted(view.log)]
    /\ UNCHANGED <<appVars, gen, call>>

\* handleAdjustPlan gathers the logs with actual data
GatherCompleted ==
    /\ view' = [pc |-> "gathered", log |-> view.log,
                completedLogs |-> completedLogs(view.log)]
    /\ UNCHANGED <<appVars, gen, call>>

InitRender ==
    /\ InitApp
    /\ storePlans = {}
    /\ gen = GenIdle
    /\ view \in {[pc |-> "idle", log |-> l] : l \in RenderLogs}
    /\ call = CallIdle

NextRender == RenderDay \/ GatherCompleted

SpecRender == InitRender /\ [][NextRender]_vars

(***************************************************************************)
(* One call of getDaysArray(start, end) in a browser of a given time zone. *)
(***************************************************************************)
\* for (let dt = new Date(start); dt <= new Date(end);
\*      dt.setDate(dt.getDate() + 1)) arr.push(dateToISO(new Date(dt)))
RECURSIVE DaysLoop(_, _, _)
DaysLoop(z, dt, end) ==
    IF dt <= NewDate(end)
      THEN <<dateToISO(dt)>> \o DaysLoop(z, SetDatePlus(z, dt, 1), end)
    ELSE <<>>

getDaysArray(z, start, end) == DaysLoop(z, NewDate(start), end)

\* the ranges asked for: a single day, two days, a month, 91 days, and a
\* range whose end is before its start
RangeLengths == {-1, 0, 1, 30, 90}

RangeStarts == 8..(10 + MaxZoneShift)

DaysInputs ==
    {[pc |-> "days", zone |-> z, start |-> s, end |-> s + n] :
        z \in Zones, s \in RangeStarts, n \in RangeLengths}

DaysReturn ==
    /\ call.pc = "days"
    /\ call' = [pc |-> "daysReturned", zone |-> call.zone,
                start |-> call.start, end |-> call.end,
                result |-> getDaysArray(call.zone, call.start, call.end)]
    /\ UNCHANGED <<appVars, gen, view>>

InitDays ==
    /\ InitApp
    /\ storePlans = {}
    /\ gen = GenIdle
    /\ view = ViewIdle
    /\ call \in DaysInputs

NextDays == DaysReturn

SpecDays == InitDays /\ [][NextDays]_vars

(***************************************************************************)
(* One call of calculatePace(distance, durationStr).  The distance is a    *)
(* number of hundredths of a kilometre, the duration the list of numbers   *)
(* between its colons; minutes are kept as exact fractions (seconds over   *)
(* sixty), so the rounding of binary floating point is left out.           *)
(***************************************************************************)
\* the duration in seconds: parts[0] + parts[1] / 60 minutes, or
\* parts[0] * 60 + parts[1] + parts[2] / 60 minutes
totalSeconds(parts) ==
    IF Len(parts) = 2 THEN 60 * parts[1] + parts[2]
    ELSE 3600 * parts[1] + 60 * parts[2] + parts[3]

\* Math.floor(totalMinutes / dist)
paceMin(dist, parts) == (100 * totalSeconds(parts)) \div (60 * dist)

\* Math.round((paceDec - paceMin) * 60): the nearest whole number, a half
\* going up
paceSec(dist, parts) ==
    (200 * totalSeconds(parts) + dist) \div (2 * dist)
        - 60 * paceMin(dist, parts)

\* `${paceMin}:${paceSec.toString().padStart(2, '0')} /km`
Pace(min, sec) == [min |-> min, sec |-> sec]

calculatePace(dist, parts) ==
    IF dist <= 0 THEN JsNull
    ELSE IF Len(parts) \notin {2, 3} THEN JsNull
    ELSE IF totalSeconds(parts) <= 0 THEN JsNull
    ELSE Pace(paceMin(dist, parts), paceSec(dist, parts))

PaceDistances == {0, 100, 300, 500, 1000, 2110}

PaceDurations ==
    {<<m, sc>> : m \in {0, 14, 50}, sc \in {0, 30, 59}}
    \cup {<<h, m, sc>> : h \in {0, 1}, m \in {0, 45}, sc \in {0, 59}}
    \cup {<<50>>}

PaceInputs ==
    {[pc |-> "pace", distance |-> d, parts |-> ps] :
        d \in PaceDistances, ps \in PaceDurations}

PaceReturn ==
    /\ call.pc = "pace"
    /\ call' = [pc |-> "paceReturned", distance |-> call.distance,
                parts |-> call.parts,
                result |-> calculatePace(call.distance, call.parts)]
    /\ UNCHANGED <<appVars, gen, view>>

InitPace ==
    /\ InitApp
    /\ storePlans = {}
    /\ gen = GenIdle
    /\ view = ViewIdle
    /\ call \in PaceInputs

NextPace == PaceReturn

SpecPace == InitPace /\ [][NextPace]_vars

(***************************************************************************)
(* One submit of the log form (LogModal.handleSubmit): the log the form    *)
(* was opened on and the sessions in the form, then the object handed to   *)
(* onSave, which handleSaveLog writes with merge.                          *)
(***************************************************************************)
SubmitSessions ==
    LET one == {Session(d, "25:00", r, f) :
                   d \in SessionDistances, r \in {3, 8}, f \in {"", "ok"}}
    IN  {<<a>> : a \in one} \cup {<<a, b>> : a \in one, b \in one}

SubmitInputs ==
    {[pc |-> "submit", log |-> [goal |-> "G"] @@ l, activities |-> acts] :
        l \in PlannedLogs, acts \in SubmitSessions}

handleSubmit ==
    /\ call.pc = "submit"
    /\ call' = [pc |-> "submitted", log |-> call.log,
                activities |-> call.activities,
                saved |-> updatedLog(call.log, call.activities,
                                     FormFeedback(call.log, "keep"))]
    /\ UNCHANGED <<appVars, gen, view>>

InitForm ==
    /\ InitApp
    /\ storePlans = {}
    /\ gen = GenIdle
    /\ view = ViewIdle
    /\ call \in SubmitInputs

NextForm == handleSubmit

SpecForm == InitForm /\ [][NextForm]_vars

(***************************************************************************)
(* The claims about generateTrainingPlan (under SpecGen).                  *)
(***************************************************************************)
\* C9: for a non-adjustment call with startDate <= raceDate the window the
\* call asks for starts at startDate and ends at startDate + 28 days when
\* that is before raceDate, at raceDate otherwise.
C9_NonAdjustWindow ==
    (gen.pc = "fetch" /\ ~gen.isAdjustment /\ gen.startDate <= gen.raceDate)
        => /\ gen.from = gen.startDate
           /\ gen.to = IF gen.startDate + 28 < gen.raceDate
                         THEN gen.startDate + 28
                       ELSE gen.raceDate

\* C10: for an adjustment call the window starts at today (the date
\* new Date() prints), whatever the plan's startDate, and ends at
\* today + 28 days when that is before raceDate, at raceDate otherwise.
C10_AdjustWindow ==
    (gen.pc = "fetch" /\ gen.isAdjustment)
        => LET today == gen.now \div 24
           IN  /\ gen.from = today
               /\ gen.to = IF today + 28 < gen.raceDate THEN today + 28
                           ELSE gen.raceDate

\* C7: generateTrainingPlan never throws or rejects to its caller; on a
\* network error, a non-success HTTP status, a response without
\* candidates[0].content.parts[0].text and a text that is not valid JSON
\* once the fences are stripped it returns null.
C7_NeverThrows ==
    gen.pc = "returned" =>
        /\ gen.result # Thrown
        /\ (\/ gen.resp.kind = "networkError"
            \/ ~gen.resp.ok
            \/ gen.resp.json # "text"
            \/ gen.resp.text.body = Invalid
            \/ gen.resp.text.open = "bare") => gen.result = JsNull

\* a fenced text whose body is not JSON was answered with null
C7_Witness ==
    /\ gen.pc = "returned"
    /\ gen.resp.ok
    /\ gen.resp.json = "text"
    /\ gen.resp.text.open = "json"
    /\ gen.resp.text.close
    /\ gen.resp.text.body = Invalid
    /\ gen.result = JsNull

\* C8: every result of generateTrainingPlan is a list of day records or the
\* failure signal (null); valid JSON that is not an array is never returned
\* as a plan.
C8_ListOrFailure ==
    gen.pc = "returned" => (gen.result = JsNull \/ IsArray(gen.result))

(***************************************************************************)
(* The claims about the session (under Spec).                              *)
(***************************************************************************)
\* C1: when an Adjust or a chat update commits a proposal that has a record
\* (date and plannedActivity) for a date with a stored day log, the stored
\* log afterwards carries the record's plannedActivity and every actual
\* field it had (activities, actualDistance, durationStr, rpe, feeling,
\* coachFeedback) with its value unchanged.
C1_MergePreservesActuals ==
    [][LET Preserved(p, proposal) ==
              \A i \in 1..Len(proposal) :
                 LET r == proposal[i]
                     k == <<p, r.date>>
                 IN  ("date" \in DOMAIN r /\ "plannedActivity" \in DOMAIN r
                        /\ r.plannedActivity # "" /\ k \in DOMAIN days)
                     => /\ k \in DOMAIN days'
                        /\ days'[k].plannedActivity = r.plannedActivity
                        /\ \A f \in ActualFields \cap DOMAIN days[k] :
                              /\ f \in DOMAIN days'[k]
                              /\ days'[k][f] = days[k][f]
       IN  /\ (adj.pc = "gen" /\ adj'.pc = "commit" /\ adj'.ok)
                => Preserved(adj'.plan, adj'.arg)
           /\ (chat.pc = "fetch" /\ chat'.pc = "update" /\ chat'.ok)
                => Preserved(chat'.plan, chat'.arg)]_vars

\* C2: in every reachable state of the store every day log belongs to a
\* plan document that exists.
C2_NoOrphanedDayLogs ==
    \A k \in DOMAIN days : k[1] \in storePlans

\* C3: deleting a plan that has N day logs issues N + 1 deletes in one
\* batch (the N day logs and the plan document); when the batch is rejected
\* neither the plan document nor a day log is deleted.
C3_DeleteCascade ==
    [][(del.pc # "commit" /\ del'.pc = "commit")
          => LET p == del'.plan
                 logs == {k \in DOMAIN days : k[1] = p}
             IN  /\ Len(del'.batch) = Cardinality(logs) + 1
                 /\ \A k \in logs :
                       \E i \in 1..Len(del'.batch) :
                          /\ del'.batch[i].op = "delete"
                          /\ del'.batch[i].coll = "days"
                          /\ del'.batch[i].plan = p
                          /\ del'.batch[i].date = k[2]
                 /\ \E i \in 1..Len(del'.batch) :
                       /\ del'.batch[i].op = "delete"
                       /\ del'.batch[i].coll = "plans"
                       /\ del'.batch[i].plan = p
                 /\ ~del'.ok => (storePlans' = storePlans /\ days' = days)]_vars

\* C4: the upserts of one Adjust or chat-update invocation are committed as
\* one atomic batch.  The step that issues the batch leaves the store with
\* every write of the batch applied (each date written carries the fields of
\* the last write to it) or, when the batch is rejected, exactly as it was;
\* no other step of the invocation writes; and the day-log map the client
\* holds only ever changes to the empty map or to the day collection of one
\* plan as the store holds it.
C4_AtomicBatch ==
    [][LET AllOrNothing(h) ==
              IF h.ok
                THEN \A i \in 1..Len(h.batch) :
                        LET o == h.batch[i]
                            k == <<o.plan, o.date>>
                        IN  (\A j \in (i + 1)..Len(h.batch) :
                                h.batch[j].date # o.date)
                            => /\ k \in DOMAIN days'
                               /\ \A f \in DOMAIN o.data :
                                     /\ f \in DOMAIN days'[k]
                                     /\ days'[k][f] = o.data[f]
                ELSE days' = days /\ storePlans' = storePlans
           Projection(p) ==
              LET dates == {k[2] : k \in {x \in DOMAIN days : x[1] = p}}
              IN  [d \in dates |-> days[<<p, d>>] @@ [id |-> d]]
       IN  /\ (adj.pc = "gen" /\ adj'.pc = "commit") => AllOrNothing(adj')
           /\ (chat.pc = "fetch" /\ chat'.pc = "update") => AllOrNothing(chat')
           /\ (adj' # adj /\ ~(adj.pc = "gen" /\ adj'.pc = "commit"))
                => days' = days
           /\ (chat' # chat /\ ~(chat.pc = "fetch" /\ chat'.pc = "update"))
                => days' = days
           /\ planLogs' # planLogs
                => \/ planLogs' = <<>>
                   \/ \E p \in 1..MaxPlans : planLogs' = Projection(p)]_vars

\* an Adjust whose batch wrote two dates was accepted and the client has
\* been handed the snapshot that shows both
C4_Witness ==
    /\ adj.pc = "commit"
    /\ adj.ok
    /\ Len(adj.batch) >= 2
    /\ adj.batch[1].date # adj.batch[2].date
    /\ \A i \in 1..Len(adj.batch) :
          /\ <<adj.plan, adj.batch[i].date>> \in DOMAIN days
          /\ adj.batch[i].date \in DOMAIN planLogs
    /\ ~daysDirty

\* C5: when handleChatUpdatePlan runs for a proposed list (a plan is
\* current), it issues one merge-upsert for each record of the list that
\* has a date and a plannedActivity, in the list's order, and none for any
\* other record; each upsert carries the fields date and plannedActivity of
\* its record and no other field.
C5_ChatUpserts ==
    chat.pc = "update" =>
        LET kept == SelectSeq(chat.arg,
                              LAMBDA r : /\ "date" \in DOMAIN r
                                         /\ "plannedActivity" \in DOMAIN r
                                         /\ r.plannedActivity # "")
        IN  /\ Len(chat.batch) = Len(kept)
            /\ \A i \in 1..Len(kept) :
                  /\ chat.batch[i].op = "set"
                  /\ chat.batch[i].merge
                  /\ chat.batch[i].coll = "days"
                  /\ chat.batch[i].plan = chat.plan
                  /\ chat.batch[i].date = kept[i].date
                  /\ chat.batch[i].data =
                        [date |-> kept[i].date,
                         plannedActivity |-> kept[i].plannedActivity]

\* a chat proposal of three records, one without plannedActivity and one
\* with an empty one, issued a single upsert
C5_Witness ==
    /\ chat.pc = "update"
    /\ Len(chat.arg) = 3
    /\ Len(chat.batch) = 1
    /\ chat.ok
    /\ <<chat.plan, 1>> \in DOMAIN days
    /\ days[<<chat.plan, 1>>].plannedActivity = "Tempo"

\* C6: in the Adjust and the create-plan path a generated record without
\* date or without plannedActivity is dropped and is no error: the handler
\* goes on to commit a batch with one upsert for each well-formed record of
\* the list it was handed.
C6_MalformedDropped ==
    \A h \in {adj, cre} :
       LET WellFormed(r) ==
              /\ "date" \in DOMAIN r
              /\ "plannedActivity" \in DOMAIN r
              /\ r.plannedActivity # ""
       IN  (\E i \in 1..Len(h.arg) : ~WellFormed(h.arg[i]))
           => /\ h.pc = "commit"
              /\ Len(h.batch) =
                    Cardinality({i \in 1..Len(h.arg) : WellFormed(h.arg[i])})

(***************************************************************************)
(* The claims about the chat (under SpecChat).                             *)
(***************************************************************************)
\* C11: when a reply holds a delimiter pair and the text between the first
\* pair parses as a JSON array, onUpdatePlan is called once, with that
\* array, and the reply recorded in the transcript is the reply without
\* the delimited block (up to white space) followed by the success note.
C11_UpdateApplied ==
    \A n \in 1..Len(turns) :
       LET r == turns[n].answer.text
           ds == {i \in 1..Len(r) : r[i] = Delim}
       IN  (turns[n].answer.kind = "text" /\ Cardinality(ds) >= 2) =>
           LET i == CHOOSE x \in ds : \A y \in ds : x <= y
               j == CHOOSE x \in ds \ {i} : \A y \in ds \ {i} : x <= y
               inner == SelectSeq(SubSeq(r, i + 1, j - 1),
                                  LAMBDA t : t # Space)
               recorded == messages[2 * n + 1].text
           IN  (Len(inner) = 1 /\ inner[1].k = "json"
                  /\ inner[1].v.t = "array")
               => /\ turns[n].updates = <<inner[1].v.a>>
                  /\ recorded # <<>>
                  /\ recorded[Len(recorded)] = PlanUpdated
                  /\ SelectSeq(SubSeq(recorded, 1, Len(recorded) - 1),
                               LAMBDA t : t # Space)
                       = SelectSeq(SubSeq(r, 1, i - 1)
                                     \o SubSeq(r, j + 1, Len(r)),
                                   LAMBDA t : t # Space)

\* a reply with two blocks was applied: the first block is gone from the
\* recorded reply, the second is still in it
C11_Witness ==
    \E n \in 1..Len(turns) :
       /\ Len(turns[n].updates) = 1
       /\ Len(turns[n].updates[1]) = 2
       /\ Cardinality({i \in 1..Len(turns[n].answer.text) :
                          turns[n].answer.text[i] = Delim}) = 4
       /\ Cardinality({i \in 1..Len(messages[2 * n + 1].text) :
                          messages[2 * n + 1].text[i] = Delim}) = 2

\* C12: when the text between the first delimiter pair of a reply is not
\* valid JSON, onUpdatePlan is not called, the reply is recorded with its
\* text unchanged and the technical-error note appended, and the turn ends
\* (a later turn can be sent).
C12_BrokenUpdate ==
    \A n \in 1..Len(turns) :
       LET r == turns[n].answer.text
           ds == {i \in 1..Len(r) : r[i] = Delim}
       IN  (turns[n].answer.kind = "text" /\ Cardinality(ds) >= 2) =>
           LET i == CHOOSE x \in ds : \A y \in ds : x <= y
               j == CHOOSE x \in ds \ {i} : \A y \in ds \ {i} : x <= y
               inner == SelectSeq(SubSeq(r, i + 1, j - 1),
                                  LAMBDA t : t # Space)
           IN  ~(Len(inner) = 1 /\ inner[1].k = "json"
                   /\ inner[1].v.t # "invalid")
               => /\ turns[n].updates = <<>>
                  /\ messages[2 * n + 1] =
                        Msg("model", r \o <<TechnicalError>>)
                  /\ (Len(messages) = 2 * n + 1 => chat.pc # "fetch")

\* C14: the transcript is append-only: in every step the transcript before
\* is a prefix of the transcript after.
C14_AppendOnly ==
    [][/\ Len(messages') >= Len(messages)
       /\ SubSeq(messages', 1, Len(messages)) = messages]_vars

\* two turns have ended, one of them with the error message
C14_Witness ==
    /\ Len(messages) = 5
    /\ \E i \in {3, 5} : messages[i].text = ErrorConnecting
    /\ \E i \in {3, 5} : messages[i].text # ErrorConnecting

\* C15: a turn whose request fails or whose response cannot be read
\* appends one assistant message, the error message, and keeps the user's
\* message; every user message of a turn that has ended is followed by
\* exactly one assistant message (the transcript is the greeting, then one
\* user and one assistant message per ended turn, then the user message of
\* the turn in flight).
C15_OneReplyPerTurn ==
    /\ Len(messages) =
          1 + 2 * Len(turns) + (IF chat.pc = "fetch" THEN 1 ELSE 0)
    /\ \A i \in 1..Len(messages) :
          messages[i].role = IF i % 2 = 0 THEN "user" ELSE "model"
    /\ \A n \in 1..Len(turns) :
          turns[n].answer.kind \in {"networkError", "badBody"}
            => messages[2 * n + 1] = Msg("model", ErrorConnecting)

\* a turn failed, was answered with the error message, and the next turn
\* is in flight
C15_Witness ==
    /\ Len(turns) = 1
    /\ turns[1].answer.kind = "networkError"
    /\ Len(messages) = 4
    /\ messages[3].text = ErrorConnecting
    /\ chat.pc = "fetch"

(***************************************************************************)
(* The claims about the handlers' flags, alerts and scope (under Spec).    *)
(***************************************************************************)
\* C13: at most one invocation of the same action is in flight: no chat
\* turn is sent while the request of an earlier turn is outstanding, and no
\* Adjust Plan run starts while an earlier run is waiting for its
\* generation call or its commit.
C13_OneInFlight ==
    [][/\ (AdjustStart => adj.pc \notin {"gen", "commit"})
       /\ (ChatSend => chat.pc # "fetch")]_vars

\* an Adjust Plan run and a chat turn are in flight, both buttons disabled
C13_Witness ==
    /\ adj.pc = "gen"
    /\ AdjustDisabled
    /\ chat.pc = "fetch"
    /\ SendDisabled

\* C17: when the batch commit of an adjust, a chat update, a plan deletion
\* or a plan creation is rejected, the step in which the handler takes the
\* rejection raises exactly one alert, and the step that issued the batch
\* left the store as it was.
C17_RejectedBatch ==
    [][/\ (adj.pc = "commit" /\ ~adj.ok /\ adj' # adj)
            => Len(alerted') = 1
       /\ (chat.pc = "update" /\ ~chat.ok /\ chat' # chat)
            => Len(alerted') = 1
       /\ (del.pc = "commit" /\ ~del.ok /\ del' # del)
            => Len(alerted') = 1
       /\ (cre.pc = "commit" /\ ~cre.ok /\ cre' # cre)
            => Len(alerted') = 1
       /\ \A h \in {<<adj, adj'>>, <<chat, chat'>>, <<del, del'>>,
                     <<cre, cre'>>} :
             (h[1] # h[2] /\ h[2].pc \in {"commit", "update"} /\ ~h[2].ok)
               => storePlans' = storePlans /\ days' = days]_vars

\* C18: whenever there is a current plan, the entries of planLogs come from
\* a snapshot of that plan's day collection.
C18_LogsOfCurrentPlan ==
    (currentPlanId # NoPlan /\ DOMAIN planLogs # {})
        => logsFrom = currentPlanId

\* C19: when the current plan is no longer the plan an Adjust Plan run or a
\* chat turn was started for, the step that takes the answer of the
\* generation or chat call writes no day log.
C19_StaleDiscarded ==
    [][/\ (adj.pc = "gen" /\ adj' # adj /\ currentPlanId # adj.plan)
            => days' = days
       /\ (chat.pc = "fetch" /\ chat' # chat /\ currentPlanId # chat.plan)
            => days' = days]_vars

(***************************************************************************)
(* Progress.  A call that is outstanding comes back: fetch resolves or     *)
(* rejects, response.json() resolves or rejects, and the promise of        *)
(* addDoc or batch.commit() settles; the continuation of the handler that  *)
(* awaits it then runs.  The user and the listeners are under no           *)
(* obligation.                                                             *)
(***************************************************************************)
CreateReturns ==
    \E resp \in PlainResponses, ok \in BOOLEAN : CreateGenReturn(resp, ok)

AdjustReturns ==
    \E resp \in PlainResponses, ok \in BOOLEAN : AdjustGenReturn(resp, ok)

ChatReturns ==
    \/ \E reply \in UpdateReplies, ok \in BOOLEAN : ChatUpdate(reply, ok)
    \/ \E answer \in PlainAnswers : ChatNoUpdate(answer)

SpecLive ==
    /\ Spec
    /\ WF_vars(CreateReturns)
    /\ WF_vars(CreateSettled)
    /\ WF_vars(AdjustReturns)
    /\ WF_vars(AdjustSettled)
    /\ WF_vars(ChatReturns)
    /\ WF_vars(ChatSettled)

\* The listeners: a snapshot that is due is delivered (onSnapshot calls back
\* for the first snapshot and after every change of what it listens to).
SpecSync ==
    /\ Spec
    /\ WF_vars(PlansSnapshot)
    /\ WF_vars(DaysSnapshot)

\* C16: every Adjust Plan run, Create Plan run and chat turn that has set
\* its in-progress flag eventually clears it, whatever comes back from the
\* generation call, the chat call and the store.
C16_FlagsCleared ==
    /\ isAdjusting ~> ~isAdjusting
    /\ isCreatingPlan ~> ~isCreatingPlan
    /\ loading ~> ~loading

(***************************************************************************)
(* The claim about completion (under SpecRender).                          *)
(***************************************************************************)
\* C20: a day log counts as completed exactly when one of its sessions, a
\* structured activities entry or the legacy actualDistance, has a positive
\* parsed distance: so for the calendar cell, and so for the logs that
\* handleAdjustPlan gathers as completed.
C20_CompletedIff ==
    LET log == view.log
        structured ==
            IF Has(log, "activities")
              THEN {log.activities[i].actualDistance :
                       i \in 1..Len(log.activities)}
            ELSE {}
        legacy ==
            IF Has(log, "actualDistance") THEN {log.actualDistance} ELSE {}
        completed == \E d \in structured \cup legacy : ParseFloatOr0(d) > 0
    IN  /\ view.pc = "rendered" => view.isCompleted = completed
        /\ view.pc = "gathered"
             => view.completedLogs = IF completed THEN <<log>> ELSE <<>>

(***************************************************************************)
(* Further claims about generateTrainingPlan (under SpecGen).              *)
(***************************************************************************)
\* C30: the window written into the prompt is never inverted: its end is
\* on or after its start, for a first generation and for an adjustment
\* alike.
C30_WindowNotInverted ==
    gen.pc = "fetch" => gen.from <= gen.to

(***************************************************************************)
(* The claims about the helpers (under SpecDays, SpecPace, SpecForm).      *)
(***************************************************************************)
\* C21: getDaysArray(start, end) is the list of the dates from start to end
\* inclusive, in order, each one day after the one before (so a single date
\* for end = start and 91 dates for end = start + 90), in every time zone.
C21_EveryDayOnce ==
    (call.pc = "daysReturned" /\ call.start <= call.end)
        => /\ Len(call.result) = call.end - call.start + 1
           /\ \A i \in 1..Len(call.result) :
                 call.result[i] = call.start + i - 1

\* C22: for a positive distance and a duration MM:SS or HH:MM:SS of
\* positive total time, calculatePace returns M:SS /km where M:SS is the
\* total time divided by the distance, rounded to the nearest second, SS
\* between 00 and 59.
C22_PaceRounded ==
    (/\ call.pc = "paceReturned"
     /\ call.distance > 0
     /\ Len(call.parts) \in {2, 3}
     /\ totalSeconds(call.parts) > 0)
        => LET secondsPerKm ==
                  (200 * totalSeconds(call.parts) + call.distance)
                      \div (2 * call.distance)
           IN  /\ call.result = Pace(secondsPerKm \div 60, secondsPerKm % 60)
               /\ call.result.sec \in 0..59

\* C23: the legacy fields saved with a day log mirror its sessions:
\* actualDistance is the sum of the session distances, rpe the greatest
\* session rpe, feeling the non-empty session notes joined with " | ".
C23_MirrorFields ==
    call.pc = "submitted" =>
        LET acts == call.activities
            notes == SelectSeq([i \in 1..Len(acts) |-> acts[i].feeling],
                               LAMBDA f : f # "")
        IN  /\ ParseFloatOr0(call.saved.actualDistance) = SumDist(acts)
            /\ \E i \in 1..Len(acts) : call.saved.rpe = acts[i].rpe
            /\ \A i \in 1..Len(acts) : call.saved.rpe >= acts[i].rpe
            /\ call.saved.feeling =
                  CASE Len(notes) = 0 -> ""
                    [] Len(notes) = 1 -> notes[1]
                    [] OTHER -> notes[1] \o " | " \o notes[2]

(***************************************************************************)
(* Further claims about the session (under Spec and SpecLive).             *)
(***************************************************************************)
\* C24: the day-log map changes only by being replaced with a snapshot of
\* the subscribed day collection, in a step of the listener in which no
\* handler moves and the store does not change, or by being cleared when
\* no plan is current: no handler writes to it.
C24_LogsOnlyFromSnapshot ==
    [][planLogs' # planLogs =>
          \/ /\ planLogs' = <<>>
             /\ currentPlanId' = NoPlan
          \/ /\ daysSub # NoPlan
             /\ LET dates == {k[2] : k \in {x \in DOMAIN days : x[1] = daysSub}}
                IN  planLogs' =
                       [d \in dates |-> days[<<daysSub, d>>] @@ [id |-> d]]
             /\ UNCHANGED <<storePlans, days, cre, adj, chat, del, sav,
                            selectedLog, calls>>]_vars

\* an Adjust has committed its batch and the map still shows the logs of
\* the snapshot before it
C24_Witness ==
    /\ adj.pc = "commit"
    /\ adj.ok
    /\ daysDirty
    /\ DOMAIN planLogs # {}
    /\ planLogs # SnapshotLogs(days, currentPlanId)
    /\ logsFrom = currentPlanId

\* C25: a day log that is in the store leaves it only in the step that
\* commits the deletion of its plan: saving a log, an Adjust, a chat update
\* and the creation of a plan never remove a day log.
C25_OnlyPlanDeletionRemoves ==
    [][\A k \in DOMAIN days :
          k \notin DOMAIN days'
            => /\ del' # del
               /\ del'.pc = "commit"
               /\ del'.ok
               /\ del'.plan = k[1]
               /\ k[1] \notin storePlans'
               /\ UNCHANGED <<cre, adj, chat, sav>>]_vars

\* a log was saved from the form and an Adjust has committed over the same
\* plan: every day the plan had is still stored
C25_Witness ==
    /\ sav.pc = "commit"
    /\ sav.ok
    /\ adj.pc = "commit"
    /\ adj.ok
    /\ adj.plan = sav.plan
    /\ Len(adj.batch) >= 1
    /\ \A d \in 1..MaxDate : <<adj.plan, d>> \in DOMAIN days

\* C26 (under SpecSync): the day-log map catches up with the store: from
\* some point on, whenever a plan is current the map is exactly the day
\* collection of that plan as the store holds it.
C26_EventuallyConsistent ==
    <>[](currentPlanId # NoPlan
           => planLogs = SnapshotLogs(days, currentPlanId))

\* an Adjust or a chat update has changed a stored activity and the map
\* shows it
C26_Witness ==
    /\ currentPlanId # NoPlan
    /\ ~daysDirty
    /\ planLogs = SnapshotLogs(days, currentPlanId)
    /\ \E d \in DOMAIN planLogs : planLogs[d].plannedActivity = "Tempo"


\* C28 (under Spec): a Save of the edit form that the store accepts leaves
\* the plannedActivity of every stored day log as it was.
C28_SaveKeepsPlanned ==
    [][(sav' # sav /\ sav'.pc = "commit" /\ sav'.ok)
          => \A k \in DOMAIN days :
                "plannedActivity" \in DOMAIN days[k]
                   => /\ k \in DOMAIN days'
                      /\ "plannedActivity" \in DOMAIN days'[k]
                      /\ days'[k].plannedActivity = days[k].plannedActivity]_vars

\* C29 (under Spec): a reply is recorded with the 'Plan Updated' note only
\* in a turn whose batch of day upserts the store has accepted.
C29_NoteOnlyIfCommitted ==
    [][(/\ Len(messages') = Len(messages) + 1
        /\ \E i \in 1..Len(messages'[Len(messages')].text) :
              messages'[Len(messages')].text[i] = PlanUpdated)
          => /\ chat'.pc = "update"
             /\ chat'.ok]_vars

(***************************************************************************)
(* The claim about the signed-in user (under SpecAuth).                    *)
(***************************************************************************)
\* C27 (under SpecAuth): whenever the signed-in user has a plan, the plan
\* list has been delivered and no deletion is under way, currentPlanId is
\* one of the plans of the list.
C27_OneCurrentPlan ==
    (/\ user # NoUser
     /\ UserPlans(storePlans, user) # {}
     /\ ~plansDirty
     /\ del.pc # "commit")
        => /\ currentPlanId # NoPlan
           /\ currentPlanId \in plans

=============================================================================
